---- MODULE Spec2Model ----
(***************************************************************************)
(* A model of the book_managing REST API: the author and book catalog kept *)
(* in one relational database, the request handlers of the /authors and    *)
(* /books routers, and the bearer-token dependency that guards them.       *)
(*                                                                         *)
(* Strings are sequences of opaque tokens (a title <<"Dune", "II">>), so   *)
(* that f-string formatting, split('+') and icontains are computed, not    *)
(* assumed. An optional value is <<>> (None, or a missing key) or <<v>>.   *)
(* A database lookup (get_or_none) returns the set of matching rows.       *)
(***************************************************************************)
EXTENDS Integers, Sequences, FiniteSets, TLC

VARIABLES
    authors,      \* table authormodel: set of [id, full_name, birth_date, biography]
    books,        \* table bookmodel: set of [id, title, published_year, genre, author_id]
    author_seq,   \* last id handed out by authormodel's serial primary key
    book_seq,     \* last id handed out by bookmodel's serial primary key
    now,          \* wall clock, in token-lifetime units
    resp,         \* the response in flight to the client, with the request it answers
    before,       \* history: the two tables as the request in flight found them
    inflight,     \* per concurrent client: the coroutine of its request, at an await
    users,        \* table usermodel: set of [id, username, hashed_password]
    utcoffset,    \* the server's local time minus UTC, in the units of now
    issued,       \* history: the tokens the client got from /auth/token
    PostgresDB,   \* the class: _instance, the holder of _lock, the objects made
    threads       \* per thread: the frame of its call PostgresDB(dsn)

dbvars == <<authors, books, author_seq, book_seq>>
vars == <<authors, books, author_seq, book_seq, now, resp, before, inflight,
          users, utcoffset, issued, PostgresDB, threads>>

----------------------------------------------------------------------------
(* Bounds of the model *)

MaxAuthorId == 2
MaxBookId == 2
MaxRows == 3
MaxNow == 5
MaxTokens == 2

(* Program constants *)

MinPublishedYear == 1800
MinBirthYear == 1700
CurrentYear == 2026

valid_genres == {<<"Fiction">>, <<"Non-", "Fiction">>, <<"Science">>, <<"History">>}

AUTH_SECRET_KEY == "secret"

None == <<>>
Some(v) == <<v>>

----------------------------------------------------------------------------
(* db/singleton_tortoise: the class PostgresDB *)

\* The threads that call PostgresDB(dsn)
Threads == {"t1", "t2"}

\* DB = PostgresDB(dsn=...) of db_setup, run once when the module is
\* imported: the one object, with the DSN of the settings
DbSetup ==
    [instance |-> Some(1), lock |-> "free",
     objects |-> <<[dsn |-> Some("postgres://settings")]>>]

----------------------------------------------------------------------------
(* String helpers *)

Lower(c) ==
    CASE c = "Dune" -> "dune"
      [] c = "II" -> "ii"
      [] c = "Fiction" -> "fiction"
      [] c = "Non-" -> "non-"
      [] c = "Science" -> "science"
      [] c = "History" -> "history"
      [] c = "Poetry" -> "poetry"
      [] OTHER -> c

LowerStr(s) == [i \in 1..Len(s) |-> Lower(s[i])]

\* SQL: UPPER(column) LIKE UPPER('%needle%')
icontains(hay, needle) ==
    \E i \in 1..(Len(hay) - Len(needle) + 1) :
        SubSeq(LowerStr(hay), i, i + Len(needle) - 1) = LowerStr(needle)

DigitChars == <<"0", "1", "2", "3", "4", "5", "6", "7", "8", "9">>

RECURSIVE Digits(_)
\* CAST(n AS VARCHAR) of a non-negative integer, one token per decimal digit
Digits(n) ==
    IF n < 10 THEN <<DigitChars[n + 1]>>
    ELSE Append(Digits(n \div 10), DigitChars[(n % 10) + 1])

RECURSIVE split(_, _)
\* str.split(sep): the pieces of s between occurrences of the token sep
split(s, sep) ==
    IF \A i \in 1..Len(s) : s[i] # sep
    THEN <<s>>
    ELSE LET k == CHOOSE i \in 1..Len(s) :
                      /\ s[i] = sep
                      /\ \A j \in 1..(i - 1) : s[j] # sep
         IN  <<SubSeq(s, 1, k - 1)>> \o split(SubSeq(s, k + 1, Len(s)), sep)

----------------------------------------------------------------------------
(* Bearer token dependency *)

jwt_decode_ignoring_exp(token) == token.key = AUTH_SECRET_KEY

\* jwt.decode: signature made with the server's key, and not expired
jwt_decode_ok(token) ==
    /\ token.key = AUTH_SECRET_KEY
    /\ token.exp >= now

\* The status get_current_user ends with for an Authorization header, which
\* is absent ({}) or carries one token: 200 stands for a returned TokenData.
get_current_user(header) ==
    IF header = {} THEN 401
    ELSE LET token == CHOOSE t \in header : TRUE
         IN  IF ~jwt_decode_ok(token) THEN 401
             ELSE IF token.sub = "" THEN 401
             ELSE 200

----------------------------------------------------------------------------
(* Database layer *)

get_author_by_id_from_db(author_id) == {a \in authors : a.id = author_id}

get_author_by_full_name(name, surname) ==
    {a \in authors : a.full_name = name \o <<" ">> \o surname}

get_book_by_title(title) == {b \in books : b.title = title}

get_book_by_id_from_db(book_id) == {b \in books : b.id = book_id}

\* UNIQUE (title): no other row of the table carries the title
title_not_unique(table, row) == TRUE

title_unique(table, row) ==
    \A b \in table : b.id # row.id => b.title # row.title

\* FOREIGN KEY (author_id) REFERENCES authormodel (id)
author_fk(row) == \E a \in authors : a.id = row.author_id

\* INSERT of one row: [ok, table]; ok is FALSE for an IntegrityError
insert_book(table, row) ==
    IF title_unique(table, row) /\ author_fk(row)
    THEN [ok |-> TRUE, table |-> table \cup {row}]
    ELSE [ok |-> FALSE, table |-> table]

RECURSIVE insert_books(_, _, _)
\* bulk_create: executemany of INSERT inside one transaction, all rows or
\* none; the rows get the next ids of the serial key. [ok, table]
insert_books(table, rows, next_id) ==
    IF rows = <<>> THEN [ok |-> TRUE, table |-> table]
    ELSE LET t == insert_book(table, [Head(rows) EXCEPT !.id = next_id])
         IN  IF ~t.ok THEN [ok |-> FALSE, table |-> books]
             ELSE insert_books(t.table, Tail(rows), next_id + 1)

\* model.save() of a fetched row: UPDATE of every column WHERE id = row.id
save_book(table, row) ==
    IF row.id \notin {b.id : b \in table} THEN [ok |-> TRUE, table |-> table]
    ELSE IF title_unique(table, row) /\ author_fk(row)
    THEN [ok |-> TRUE, table |-> {b \in table : b.id # row.id} \cup {row}]
    ELSE [ok |-> FALSE, table |-> table]

delete_book_from_db(book_id) == {b \in books : b.id # book_id}

delete_author_keeping_books(author_id) ==
    [authors |-> {a \in authors : a.id # author_id}, books |-> books]

\* DELETE FROM authormodel WHERE id = ...; the foreign key of bookmodel is
\* declared without on_delete, which is ON DELETE CASCADE
delete_author_from_db(author_id) ==
    [authors |-> {a \in authors : a.id # author_id},
     books   |-> {b \in books : b.author_id # author_id}]

----------------------------------------------------------------------------
(* Outcomes of a service function: a returned value (exc = "none") or a   *)
(* raised exception, an HTTPException with its status or any other one,   *)
(* together with the database the call leaves behind.                     *)

Outcome(exc, status, detail, data, db) ==
    [exc |-> exc, status |-> status, detail |-> detail, data |-> data,
     authors |-> db.authors, books |-> db.books,
     author_seq |-> db.author_seq, book_seq |-> db.book_seq, users |-> db.users]

CurrentDb ==
    [authors |-> authors, books |-> books,
     author_seq |-> author_seq, book_seq |-> book_seq, users |-> users]

Return(data) == Outcome("none", 200, "", data, CurrentDb)
ReturnDb(data, db) == Outcome("none", 200, "", data, db)
HTTPException(status, detail) == Outcome("HTTPException", status, detail, {}, CurrentDb)
\* An exception that is no HTTPException (IntegrityError, IndexError,
\* pydantic's ValidationError); unhandled, the server answers it with 500
Exception(kind) == Outcome("Exception", 500, kind, {}, CurrentDb)

\* try: body / except HTTPException: raise / except Exception: raise 500
reraise_http_else_500(body, detail) ==
    IF body.exc = "Exception" THEN HTTPException(500, detail) ELSE body

\* try: body / except Exception: raise 500 (HTTPException is an Exception)
except_all_500(body, detail) ==
    IF body.exc # "none" THEN HTTPException(500, detail) ELSE body

----------------------------------------------------------------------------
(* routers/author *)

any_birth_date(value) == TRUE

\* AuthorCreate.validate_birth_date / AuthorUpdate.validate_birth_date on a
\* parsed date, of which the model keeps the year
validate_birth_date(value) == MinBirthYear <= value /\ value <= CurrentYear

create_author_in_db(author) ==
    LET row == [id |-> author_seq + 1,
                full_name |-> author.name \o <<" ">> \o author.surname,
                birth_date |-> Some(author.birth_date),
                biography |-> author.biography]
    IN  ReturnDb({row}, [CurrentDb EXCEPT !.authors = authors \cup {row},
                                          !.author_seq = author_seq + 1])

check_exist_author_and_create(author) ==
    LET existing_author == get_author_by_full_name(author.name, author.surname)
        body == IF Cardinality(existing_author) > 1
                THEN Exception("MultipleObjectsReturned")
                ELSE IF existing_author # {}
                THEN HTTPException(400, "Author already exists")
                ELSE create_author_in_db(author)
    IN  reraise_http_else_500(body, "Internal Error")

create_author(author) ==
    IF ~validate_birth_date(author.birth_date)
    THEN HTTPException(422, "Author's birth date out of range")
    ELSE check_exist_author_and_create(author)

get_authors == Return(authors)

get_author_by_id(author_id) ==
    LET author == get_author_by_id_from_db(author_id)
        body == IF author = {}
                THEN HTTPException(404, "Author not found")
                ELSE Return(author)
    IN  except_all_500(body, "Internal Error")

\* The steps of check_exist_author_and_update on the fetched row; an
\* IndexError of split('+')[1] leaves the row as "IndexError"
update_full_name_name(row, author_update) ==
    IF author_update.name = None THEN [ok |-> TRUE, row |-> row]
    ELSE LET parts == split(row.full_name, "+")
         IN  IF Len(parts) < 2 THEN [ok |-> FALSE, row |-> row]
             ELSE [ok |-> TRUE,
                   row |-> [row EXCEPT !.full_name =
                                author_update.name[1] \o <<"+">> \o parts[2]]]

update_full_name_surname(row, author_update) ==
    IF author_update.surname = None THEN row
    ELSE [row EXCEPT !.full_name =
              split(row.full_name, "+")[1] \o <<"+">> \o author_update.surname[1]]

update_author_rest_writing_none(row, author_update) ==
    [row EXCEPT !.birth_date = author_update.birth_date,
                !.biography = author_update.biography]

update_author_rest(row, author_update) ==
    LET r1 == IF author_update.birth_date = None THEN row
              ELSE [row EXCEPT !.birth_date = author_update.birth_date]
    IN  IF author_update.biography = None THEN r1
        ELSE [r1 EXCEPT !.biography = author_update.biography]

check_exist_author_and_update(author_id, author_update) ==
    LET existing_author == get_author_by_id_from_db(author_id)
        row == CHOOSE a \in existing_author : TRUE
        named == update_full_name_name(row, author_update)
        updated == update_author_rest(
                       update_full_name_surname(named.row, author_update),
                       author_update)
        body == IF existing_author = {}
                THEN HTTPException(404, "Author not found")
                ELSE IF ~named.ok THEN Exception("IndexError")
                ELSE ReturnDb({updated},
                         [CurrentDb EXCEPT !.authors =
                              {a \in authors : a.id # author_id} \cup {updated}])
    IN  reraise_http_else_500(body, "Internal Error")

update_author(author_id, author_update) ==
    IF author_update.birth_date # None
       /\ ~validate_birth_date(author_update.birth_date[1])
    THEN HTTPException(422, "Author's birth date out of range")
    ELSE check_exist_author_and_update(author_id, author_update)

delete_author_by_id_unchecked(author_id) ==
    LET after == delete_author_from_db(author_id)
    IN  ReturnDb({}, [CurrentDb EXCEPT !.authors = after.authors,
                                       !.books = after.books])

delete_author_by_id(author_id) ==
    LET author == get_author_by_id_from_db(author_id)
        after == delete_author_from_db(author_id)
        body == IF author = {}
                THEN HTTPException(404, "Author not found")
                ELSE ReturnDb({}, [CurrentDb EXCEPT !.authors = after.authors,
                                                    !.books = after.books])
    IN  reraise_http_else_500(body, "Internal Error")

----------------------------------------------------------------------------
(* routers/books *)

any_published_year(value) == TRUE

validate_published_year(value) == MinPublishedYear <= value /\ value <= CurrentYear

validate_genre(value) == value \in valid_genres

BookFields == {"title", "published_year", "genre", "author_id"}

\* BookCreate(**book) on a row whose every field is present (<<v>>) or
\* missing (<<>>): "ok", "HTTPException" (raised by a field validator, which
\* pydantic lets through as it is) or "ValidationError" (a required field is
\* missing)
BookCreate(book) ==
    IF book.published_year # None /\ ~validate_published_year(book.published_year[1])
    THEN "HTTPException"
    ELSE IF book.genre # None /\ ~validate_genre(book.genre[1])
    THEN "HTTPException"
    ELSE IF \E f \in BookFields : book[f] = None
    THEN "ValidationError"
    ELSE "ok"

\* validated_book.model_dump()
model_dump(book) ==
    [title |-> book.title[1], published_year |-> book.published_year[1],
     genre |-> book.genre[1], author_id |-> book.author_id[1]]

BookUpdate_unvalidated(book_update) == "ok"

\* BookUpdate(...) in the router: "ok" or "HTTPException"
BookUpdate(book_update) ==
    IF book_update.published_year # None
       /\ ~validate_published_year(book_update.published_year[1])
    THEN "HTTPException"
    ELSE IF book_update.genre # None /\ ~validate_genre(book_update.genre[1])
    THEN "HTTPException"
    ELSE "ok"

\* The two checks in the other order: the title first, then the author
check_title_then_author(book) ==
    IF get_book_by_title(book.title) # {}
    THEN HTTPException(400, "Book already exists")
    ELSE IF get_author_by_id_from_db(book.author_id) = {}
    THEN HTTPException(404, "Author not found")
    ELSE Return(get_author_by_id_from_db(book.author_id))

check_book_and_author_exist(book) ==
    LET author == get_author_by_id_from_db(book.author_id)
    IN  IF author = {}
        THEN HTTPException(404, "Author not found")
        ELSE IF get_book_by_title(book.title) # {}
        THEN HTTPException(400, "Book already exists")
        ELSE Return(author)

BookModel(id, book) ==
    [id |-> id, title |-> book.title, published_year |-> book.published_year,
     genre |-> book.genre, author_id |-> book.author_id]

create_book_in_db(book) ==
    LET row == BookModel(book_seq + 1, book)
        ins == insert_book(books, row)
    IN  IF ~ins.ok THEN Exception("IntegrityError")
        ELSE ReturnDb({row}, [CurrentDb EXCEPT !.books = ins.table,
                                               !.book_seq = book_seq + 1])

check_exist_book_and_create(book) ==
    LET checked == check_book_and_author_exist(book)
        body == IF checked.exc # "none" THEN checked
                ELSE create_book_in_db(book)
    IN  reraise_http_else_500(body, "Internal Error")

\* POST /books/create: the body is validated as a BookCreate, then handed on
create_book(book) ==
    IF BookCreate(book) # "ok"
    THEN HTTPException(422, "Unprocessable Entity")
    ELSE check_exist_book_and_create(model_dump(book))

RECURSIVE import_rows(_, _, _, _)
\* The loop of validate_and_save_books_to_db over the parsed rows: the three
\* lists it ends with, or aborted = TRUE when a row raises anything but an
\* HTTPException
import_rows(rows, valid_books, exist_books, not_found_authors) ==
    IF rows = <<>>
    THEN [aborted |-> FALSE, valid_books |-> valid_books,
          exist_books |-> exist_books, not_found_authors |-> not_found_authors]
    ELSE LET book == Head(rows)
             validated == BookCreate(book)
             checked == check_book_and_author_exist(model_dump(book))
         IN  IF validated = "ValidationError"
             THEN [aborted |-> TRUE, valid_books |-> valid_books,
                   exist_books |-> exist_books,
                   not_found_authors |-> not_found_authors]
             ELSE IF validated = "HTTPException"
             THEN import_rows(Tail(rows), valid_books, exist_books, not_found_authors)
             ELSE IF checked.exc = "none"
             THEN import_rows(Tail(rows),
                              Append(valid_books, BookModel(0, model_dump(book))),
                              exist_books, not_found_authors)
             ELSE IF checked.status = 400 /\ checked.detail = "Book already exists"
             THEN import_rows(Tail(rows), valid_books,
                              Append(exist_books, book), not_found_authors)
             ELSE IF checked.status = 404 /\ checked.detail = "Author not found"
             THEN import_rows(Tail(rows), valid_books, exist_books,
                              Append(not_found_authors, book))
             ELSE import_rows(Tail(rows), valid_books, exist_books, not_found_authors)

RECURSIVE insert_books_until_failure(_, _, _)
\* Inserts without a transaction: the rows before the failing one stay
insert_books_until_failure(table, rows, next_id) ==
    IF rows = <<>> THEN [ok |-> TRUE, table |-> table, next_id |-> next_id]
    ELSE LET t == insert_book(table, [Head(rows) EXCEPT !.id = next_id])
         IN  IF ~t.ok THEN [ok |-> FALSE, table |-> table, next_id |-> next_id]
             ELSE insert_books_until_failure(t.table, Tail(rows), next_id + 1)

create_books_one_at_a_time(valid_books) ==
    LET ins == insert_books_until_failure(books, valid_books, book_seq + 1)
        db == [CurrentDb EXCEPT !.books = ins.table, !.book_seq = ins.next_id - 1]
    IN  IF ~ins.ok THEN Outcome("Exception", 500, "IntegrityError", {}, db)
        ELSE ReturnDb({}, db)

bulk_create_books_in_db(valid_books) ==
    LET ins == insert_books(books, valid_books, book_seq + 1)
    IN  IF ~ins.ok THEN Exception("IntegrityError")
        ELSE ReturnDb({}, [CurrentDb EXCEPT !.books = ins.table,
                                            !.book_seq = book_seq + Len(valid_books)])

save_books_of_any_file(file) ==
    LET scan == import_rows(file.rows, <<>>, <<>>, <<>>)
        saved == bulk_create_books_in_db(scan.valid_books)
        report == [saved |-> Len(scan.valid_books),
                   exist_books |-> scan.exist_books,
                   not_found_authors |-> scan.not_found_authors]
    IN  IF scan.aborted THEN HTTPException(500, "Internal Error")
        ELSE IF scan.valid_books = <<>> THEN Return(report)
        ELSE IF saved.exc # "none" THEN saved
        ELSE [saved EXCEPT !.data = report]

\* file = [ext, rows]: the extension of the file name and the rows the
\* file's content parses to
validate_and_save_books_to_db(file) ==
    IF file.ext \notin {"json", "csv"}
    THEN HTTPException(400, "Unsupported file format")
    ELSE LET scan == import_rows(file.rows, <<>>, <<>>, <<>>)
             saved == bulk_create_books_in_db(scan.valid_books)
             report == [saved |-> Len(scan.valid_books),
                        exist_books |-> scan.exist_books,
                        not_found_authors |-> scan.not_found_authors]
         IN  IF scan.aborted THEN HTTPException(500, "Internal Error")
             ELSE IF scan.valid_books = <<>> THEN Return(report)
             ELSE IF saved.exc # "none" THEN saved
             ELSE [saved EXCEPT !.data = report]

get_books == Return(books)

get_book_by_id_except_all(book_id) ==
    LET book == get_book_by_id_from_db(book_id)
        body == IF book = {}
                THEN HTTPException(404, "Book not found")
                ELSE Return(book)
    IN  except_all_500(body, "Internal Error")

get_book_by_id(book_id) ==
    LET book == get_book_by_id_from_db(book_id)
        body == IF book = {}
                THEN HTTPException(404, "Book not found")
                ELSE Return(book)
    IN  reraise_http_else_500(body, "Internal Error")

\* GET /books/search/: a filter is used when its parameter is truthy
search_filters(title, author_id, genre, year) ==
    [title__icontains |-> IF title # None /\ title[1] # <<>> THEN title ELSE None,
     author__id__icontains |->
         IF author_id # None /\ author_id[1] # <<>> THEN author_id ELSE None,
     genre__icontains |-> IF genre # None /\ genre[1] # <<>> THEN genre ELSE None,
     published_year |-> IF year # None /\ year[1] # 0 THEN year ELSE None]

get_books_by_filter_from_db(filters) ==
    {b \in books :
        /\ filters.title__icontains # None
               => icontains(b.title, filters.title__icontains[1])
        /\ filters.author__id__icontains # None
               => icontains(Digits(b.author_id), filters.author__id__icontains[1])
        /\ filters.genre__icontains # None
               => icontains(b.genre, filters.genre__icontains[1])
        /\ filters.published_year # None
               => b.published_year = filters.published_year[1]}

get_book_by_filters(filters) ==
    LET found == get_books_by_filter_from_db(filters)
        body == IF Cardinality(found) > 0 THEN Return(found)
                ELSE HTTPException(404, "No books found")
    IN  except_all_500(body, "Internal Error")

search_books(title, author_id, genre, year) ==
    get_book_by_filters(search_filters(title, author_id, genre, year))

\* The assignments of check_exist_book_and_update to the fetched row
apply_book_update_resetting_year(book, book_update) ==
    [book EXCEPT
        !.title = IF book_update.title # None THEN book_update.title[1] ELSE @,
        !.author_id = IF book_update.author_id # None
                      THEN book_update.author_id[1] ELSE @,
        !.published_year = IF book_update.published_year # None
                           THEN book_update.published_year[1]
                           ELSE MinPublishedYear,
        !.genre = IF book_update.genre # None THEN book_update.genre[1] ELSE @]

apply_book_update(book, book_update) ==
    LET b1 == IF book_update.title # None
              THEN [book EXCEPT !.title = book_update.title[1]] ELSE book
        b2 == IF book_update.author_id # None
              THEN [b1 EXCEPT !.author_id = book_update.author_id[1]] ELSE b1
        b3 == IF book_update.published_year # None
              THEN [b2 EXCEPT !.published_year = book_update.published_year[1]]
              ELSE b2
    IN  IF book_update.genre # None
        THEN [b3 EXCEPT !.genre = book_update.genre[1]] ELSE b3

check_exist_book_and_update_unchecked(book_id, book_update) ==
    LET found == get_book_by_id_from_db(book_id)
        book == CHOOSE b \in found : TRUE
        updated == apply_book_update(book, book_update)
        saved == save_book(books, updated)
        body == IF found = {}
                THEN HTTPException(404, "Book not found")
                ELSE IF ~saved.ok THEN Exception("IntegrityError")
                ELSE ReturnDb({updated}, [CurrentDb EXCEPT !.books = saved.table])
    IN  reraise_http_else_500(body, "Internal Error")

check_exist_book_and_update(book_id, book_update) ==
    LET found == get_book_by_id_from_db(book_id)
        book == CHOOSE b \in found : TRUE
        updated == apply_book_update(book, book_update)
        saved == save_book(books, updated)
        body == IF found = {}
                THEN HTTPException(404, "Book not found")
                ELSE IF book_update.author_id # None
                        /\ get_author_by_id_from_db(book_update.author_id[1]) = {}
                THEN HTTPException(404, "Author not found")
                ELSE IF ~saved.ok THEN Exception("IntegrityError")
                ELSE ReturnDb({updated}, [CurrentDb EXCEPT !.books = saved.table])
    IN  reraise_http_else_500(body, "Internal Error")

update_book(book_id, book_update) ==
    IF BookUpdate(book_update) # "ok"
    THEN HTTPException(422, "Unprocessable Entity")
    ELSE check_exist_book_and_update(book_id, book_update)

delete_book_by_id(book_id) ==
    LET book == get_book_by_id_from_db(book_id)
        body == IF book = {}
                THEN HTTPException(404, "Book not found")
                ELSE ReturnDb({}, [CurrentDb EXCEPT !.books = delete_book_from_db(book_id)])
    IN  reraise_http_else_500(body, "Internal Error")

----------------------------------------------------------------------------
(* routers/auth *)

ACCESS_TOKEN_EXPIRE_MINUTES == 2

get_user_from_db(username) == {u \in users : u.username = username}

\* UNIQUE (username)
username_unique(table, row) == \A u \in table : u.username # row.username

\* pwd_context.hash: bcrypt of the password under a salt drawn for the call
get_password_hash(password, salt) ==
    [scheme |-> "bcrypt", salt |-> salt, digest |-> <<salt, password>>]

verify_any_password(plain_password, hashed_password) == TRUE

\* pwd_context.verify: the digest of the plain password under the hash's salt
verify_password(plain_password, hashed_password) ==
    hashed_password.digest = <<hashed_password.salt, plain_password>>

\* UserModel.create; users are never deleted, so the serial id is the count
create_user_in_db(username, hashed_password) ==
    LET row == [id |-> Cardinality(users) + 1, username |-> username,
                hashed_password |-> hashed_password]
    IN  IF ~username_unique(users, row) THEN Exception("IntegrityError")
        ELSE ReturnDb({row}, [CurrentDb EXCEPT !.users = users \cup {row}])

get_user_never_raising(username) == Return({})

\* get_user raises 400 when the username is stored
get_user(username) ==
    IF get_user_from_db(username) # {}
    THEN HTTPException(400, "Username already registered")
    ELSE Return({})

check_exist_and_create_user(username, password) ==
    LET checked == get_user(username)
        salt == Cardinality(users) + 1
        body == IF checked.exc # "none" THEN checked
                ELSE create_user_in_db(username, get_password_hash(password, salt))
    IN  reraise_http_else_500(body, "Internal Error")

\* jwt.encode of {"sub", "exp"}: exp is datetime.now(), the naive local
\* time, plus the lifetime, read by jose as if it were UTC; a lifetime of
\* zero is falsy and gives 15
create_access_token(sub) ==
    LET expires_delta == ACCESS_TOKEN_EXPIRE_MINUTES
        local_now == now + utcoffset
        expire == IF expires_delta # 0 THEN local_now + expires_delta
                  ELSE local_now + 15
    IN  [sub |-> sub, exp |-> expire, key |-> AUTH_SECRET_KEY]

validate_user_and_login(username, password) ==
    LET found == get_user_from_db(username)
        user == CHOOSE u \in found : TRUE
        body == IF found = {} \/ ~verify_password(password, user.hashed_password)
                THEN HTTPException(401, "Incorrect username or password")
                ELSE Return(create_access_token(user.username))
    IN  reraise_http_else_500(body, "Internal Error")

----------------------------------------------------------------------------
(* The routes. A request is answered in one step; the client then takes   *)
(* the response before it sends the next request.                         *)

Idle == [op |-> "idle"]

Clients == {"c1", "c2"}

\* A coroutine: the route, the await it stands at, its arguments and locals
Call(op, pc, req) ==
    [op |-> op, pc |-> pc, req |-> req, book |-> {}, i |-> 1,
     valid_books |-> <<>>, exist_books |-> <<>>, not_found_authors |-> <<>>,
     status |-> 0]

NoCall == Call("idle", "idle", {})

NoSnapshot == [authors |-> {}, books |-> {}, users |-> {}]

\* Depends(get_current_user): the handler runs only for an accepted token
Depends(header, outcome) ==
    IF get_current_user(header) # 200
    THEN HTTPException(401, "Could not validate credentials")
    ELSE outcome

Respond(op, header, req, out) ==
    /\ resp = Idle
    /\ out.author_seq <= MaxAuthorId
    /\ out.book_seq <= MaxBookId
    /\ authors' = out.authors
    /\ books' = out.books
    /\ author_seq' = out.author_seq
    /\ book_seq' = out.book_seq
    /\ resp' = [op |-> op, header |-> header, req |-> req,
                status |-> out.status, detail |-> out.detail, data |-> out.data]
    /\ users' = out.users
    /\ before' = [authors |-> authors, books |-> books, users |-> users]
    /\ UNCHANGED <<now, inflight, utcoffset, issued, PostgresDB, threads>>

ReceiveResponse ==
    /\ resp # Idle
    /\ resp' = Idle
    /\ before' = NoSnapshot
    /\ issued' = IF resp.op = "login" /\ resp.status = 200
                 THEN issued \cup {resp.data} ELSE issued
    /\ UNCHANGED <<authors, books, author_seq, book_seq, now, inflight, users,
                   utcoffset, PostgresDB, threads>>

CreateAuthor(header, author) ==
    Respond("create_author", header, author, Depends(header, create_author(author)))

GetAllAuthors(header) ==
    Respond("get_all_authors", header, {}, Depends(header, get_authors))

GetAuthor(header, author_id) ==
    Respond("get_author", header, author_id,
            Depends(header, get_author_by_id(author_id)))

UpdateAuthor(header, author_id, author_update) ==
    Respond("update_author", header,
            [author_id |-> author_id, update |-> author_update],
            Depends(header, update_author(author_id, author_update)))

DeleteAuthor(header, author_id) ==
    Respond("delete_author", header, author_id,
            Depends(header, delete_author_by_id(author_id)))

CreateBook(header, book) ==
    Respond("create_book", header, book, Depends(header, create_book(book)))

\* POST /books/import declares no dependency on get_current_user
ImportBooks(header, file) ==
    Respond("import_books", header, file, validate_and_save_books_to_db(file))

GetAllBooks(header) ==
    Respond("get_all_books", header, {}, Depends(header, get_books))

GetBook(header, book_id) ==
    Respond("get_book", header, book_id, Depends(header, get_book_by_id(book_id)))

SearchBooks(header, q) ==
    Respond("search_books", header, q,
            Depends(header, search_books(q.title, q.author_id, q.genre, q.year)))

UpdateBook(header, book_id, book_update) ==
    Respond("update_book", header,
            [book_id |-> book_id, update |-> book_update],
            Depends(header, update_book(book_id, book_update)))

DeleteBook(header, book_id) ==
    Respond("delete_book", header, book_id,
            Depends(header, delete_book_by_id(book_id)))

\* POST /auth/register and POST /auth/token take no bearer token
Register(user) ==
    Respond("register", {}, user,
            check_exist_and_create_user(user.username, user.password))

Login(form_data) ==
    Respond("login", {}, form_data,
            validate_user_and_login(form_data.username, form_data.password))

\* Time passes between two requests
Tick ==
    /\ resp = Idle
    /\ now < MaxNow
    /\ now' = now + 1
    /\ UNCHANGED <<authors, books, author_seq, book_seq, resp, before, inflight,
                   users, utcoffset, issued, PostgresDB, threads>>

----------------------------------------------------------------------------
(* The requests the clients of the model send *)

GoodToken == [sub |-> "testuser", exp |-> 2, key |-> AUTH_SECRET_KEY]
ExpiredToken == [sub |-> "testuser", exp |-> 0, key |-> AUTH_SECRET_KEY]
ForgedToken == [sub |-> "testuser", exp |-> 2, key |-> "guess"]
Headers == {{}, {GoodToken}, {ExpiredToken}, {ForgedToken}}

Accepted(header) == get_current_user(header) = 200

Opt(S) == {None} \cup {Some(v) : v \in S}

SeqsUpTo(S, n) == UNION {[1..k -> S] : k \in 0..n}

\* Names and surnames, one of which holds the separator of the update route
George == <<"George">>
Eric == <<"Eric">>
Orwell == <<"Orwell">>
Blair == <<"Blair">>
OrwellBlair == <<"Orwell", "+", "Blair">>

Dune == <<"Dune">>
DuneII == <<"Dune", "II">>
Emma == <<"Emma">>
Titles == {Dune, DuneII}
Fiction == <<"Fiction">>
NonFiction == <<"Non-", "Fiction">>
Poetry == <<"Poetry">>

AuthorIds == 1..(MaxAuthorId + 1)
BookIds == 1..(MaxBookId + 1)

Set(f) == IF f = None THEN 0 ELSE 1

AuthorCreates ==
    [name : {George}, surname : {Orwell, Blair},
     birth_date : {MinBirthYear - 1, MinBirthYear}, biography : {None}]

AuthorUpdates ==
    [name : {None}, surname : {None}, birth_date : Opt({MinBirthYear - 1}),
     biography : {None}]

\* Request bodies of /books/create
BookCreates ==
    [title : {Some(t) : t \in Titles},
     published_year : {Some(MinPublishedYear - 1), Some(MinPublishedYear),
                       Some(CurrentYear + 1)},
     genre : {Some(Fiction)}, author_id : {Some(a) : a \in AuthorIds}]
    \cup
    [title : {Some(Dune)}, published_year : {Some(CurrentYear)},
     genre : {Some(Poetry), None}, author_id : {Some(1)}]

FieldsSet(u) ==
    Set(u.title) + Set(u.published_year) + Set(u.genre) + Set(u.author_id)

\* Update payloads that set at most two fields: a title, an author id, a
\* year past the current one, a genre off the list
BookUpdates ==
    {u \in [title : Opt(Titles), published_year : Opt({CurrentYear + 1}),
            genre : Opt({Poetry}), author_id : Opt(AuthorIds)] :
        FieldsSet(u) <= 2}

\* The same with a third title, a year and a genre that pass validation
RichUpdates ==
    {u \in [title : Opt(Titles \cup {Emma}),
            published_year : Opt({CurrentYear, CurrentYear + 1}),
            genre : Opt({NonFiction, Poetry}), author_id : Opt(AuthorIds)] :
        FieldsSet(u) <= 2}

Searches ==
    [title : Opt({<<>>, <<"ii">>}), author_id : Opt({<<"1">>}),
     genre : Opt({<<"fiction">>}), year : Opt({0})]

\* Rows of an import file: two that pass every check when their author is
\* stored, one that names an author id never handed out, and three that
\* fail BookCreate (year, genre, missing field)
GoodRow(title, author_id) ==
    [title |-> Some(title), published_year |-> Some(MinPublishedYear),
     genre |-> Some(Fiction), author_id |-> Some(author_id)]

GoodRows == {GoodRow(Dune, 1), GoodRow(DuneII, 1), GoodRow(Dune, MaxAuthorId + 1)}

BadRows ==
    {[GoodRow(Dune, 1) EXCEPT !.published_year = Some(MinPublishedYear - 1)],
     [GoodRow(DuneII, 1) EXCEPT !.genre = Some(Poetry)],
     [GoodRow(DuneII, 1) EXCEPT !.genre = None]}

Files == [ext : {"csv"}, rows : SeqsUpTo(GoodRows \cup BadRows, MaxRows)]
         \cup [ext : {"json", "txt"}, rows : SeqsUpTo(GoodRows, 1)]

\* The few files the clients of Spec upload
FewFiles == [ext : {"csv"}, rows : SeqsUpTo({GoodRow(Dune, 1), GoodRow(DuneII, 1)}, 2)]

\* What a client whose token is not accepted sends: one request per route
Plain(header, inputs, plain) == IF Accepted(header) THEN inputs ELSE plain

----------------------------------------------------------------------------
(* Spec: one client sending one request at a time *)

Init ==
    /\ authors = {}
    /\ books = {}
    /\ author_seq = 0
    /\ book_seq = 0
    /\ now = 1
    /\ resp = Idle
    /\ before = NoSnapshot
    /\ inflight = [c \in Clients |-> NoCall]
    /\ users = {}
    /\ utcoffset = 0
    /\ issued = {}
    /\ PostgresDB = DbSetup
    /\ threads = [t \in Threads |-> [pc |-> "idle"]]

Next ==
    \/ ReceiveResponse
    \/ \E h \in Headers :
         \E a \in Plain(h, AuthorCreates, {a \in AuthorCreates :
                                              /\ a.surname = Orwell
                                              /\ a.birth_date = MinBirthYear}) :
             CreateAuthor(h, a)
    \/ \E h \in Headers : GetAllAuthors(h)
    \/ \E h \in Headers : \E id \in Plain(h, AuthorIds, {1}) : GetAuthor(h, id)
    \/ \E h \in Headers :
         \E id \in Plain(h, AuthorIds, {1}) :
             \E u \in Plain(h, AuthorUpdates, {u \in AuthorUpdates : u.birth_date = None}) :
                 UpdateAuthor(h, id, u)
    \/ \E h \in Headers : \E id \in Plain(h, AuthorIds, {1}) : DeleteAuthor(h, id)
    \/ \E h \in Headers :
         \E b \in Plain(h, BookCreates, {GoodRow(Dune, 1)}) : CreateBook(h, b)
    \/ \E h \in {{}, {GoodToken}}, f \in FewFiles : ImportBooks(h, f)
    \/ \E h \in Headers : GetAllBooks(h)
    \/ \E h \in Headers : \E id \in Plain(h, BookIds, {1}) : GetBook(h, id)
    \/ \E h \in Headers :
         \E q \in Plain(h, Searches, {[title |-> None, author_id |-> None,
                                       genre |-> None, year |-> None]}) :
             SearchBooks(h, q)
    \/ \E h \in Headers :
         \E id \in Plain(h, BookIds, {1}) :
             \E u \in Plain(h, BookUpdates,
                             {u \in BookUpdates : u.title = Some(DuneII)
                                                   /\ FieldsSet(u) = 1}) :
                 UpdateBook(h, id, u)
    \/ \E h \in Headers : \E id \in Plain(h, BookIds, {1}) : DeleteBook(h, id)

Spec == Init /\ [][Next]_vars

----------------------------------------------------------------------------
(* SpecImport: one client that fills a small catalog and uploads files of *)
(* up to MaxRows rows                                                      *)

NextImport ==
    \/ ReceiveResponse
    \/ CreateAuthor({GoodToken},
                    [name |-> George, surname |-> Orwell,
                     birth_date |-> MinBirthYear, biography |-> None])
    \/ \E t \in Titles : CreateBook({GoodToken}, GoodRow(t, 1))
    \/ \E id \in 1..MaxBookId : DeleteBook({GoodToken}, id)
    \/ \E f \in Files : ImportBooks({GoodToken}, f)
    \/ \E f \in FewFiles : ImportBooks({}, f)

SpecImport == Init /\ [][NextImport]_vars

----------------------------------------------------------------------------
(* SpecUpdate: one client that fills a small catalog and updates its books *)

NextUpdate ==
    \/ ReceiveResponse
    \/ \E s \in {Orwell, Blair} :
         CreateAuthor({GoodToken},
                      [name |-> George, surname |-> s,
                       birth_date |-> MinBirthYear, biography |-> None])
    \/ \E t \in Titles : CreateBook({GoodToken}, GoodRow(t, 1))
    \/ \E id \in BookIds, u \in RichUpdates : UpdateBook({GoodToken}, id, u)

SpecUpdate == Init /\ [][NextUpdate]_vars

----------------------------------------------------------------------------
(* SpecConc: two clients whose requests the event loop interleaves. A     *)
(* coroutine runs from one await to the next in one step; every await of  *)
(* the book handlers is a database call.                                  *)

Done(call, status) == [call EXCEPT !.pc = "done", !.status = status]

Step(c, call) ==
    /\ inflight' = [inflight EXCEPT ![c] = call]
    /\ UNCHANGED <<authors, books, author_seq, book_seq, now, resp, before,
                   users, utcoffset, issued, PostgresDB, threads>>

\* create_book: the body is validated, then check_exist_book_and_create runs
\* up to its first await
StartCreateBook(c, book) ==
    /\ inflight[c].op = "idle"
    /\ Step(c, IF BookCreate(book) # "ok"
               THEN Done(Call("create_book", "start", book), 422)
               ELSE Call("create_book", "get_author", model_dump(book)))

\* await get_author_by_id_from_db(...) of check_book_and_author_exist
CreateBookGetAuthor(c) ==
    LET call == inflight[c]
    IN  /\ call.op = "create_book" /\ call.pc = "get_author"
        /\ Step(c, IF get_author_by_id_from_db(call.req.author_id) = {}
                   THEN Done(call, 404)
                   ELSE [call EXCEPT !.pc = "get_title"])

\* await get_book_by_title(...) of check_book_and_author_exist
CreateBookGetTitle(c) ==
    LET call == inflight[c]
    IN  /\ call.op = "create_book" /\ call.pc = "get_title"
        /\ Step(c, IF get_book_by_title(call.req.title) # {}
                   THEN Done(call, 400)
                   ELSE [call EXCEPT !.pc = "create"])

\* await create_book_in_db(...): an IntegrityError is answered 500
CreateBookInsert(c) ==
    LET call == inflight[c]
        out == reraise_http_else_500(create_book_in_db(call.req), "Internal Error")
    IN  /\ call.op = "create_book" /\ call.pc = "create"
        /\ out.book_seq <= MaxBookId
        /\ books' = out.books
        /\ book_seq' = out.book_seq
        /\ inflight' = [inflight EXCEPT ![c] = Done(call, out.status)]
        /\ UNCHANGED <<authors, author_seq, now, resp, before,
                       users, utcoffset, issued, PostgresDB, threads>>

StartUpdateBook(c, book_id, book_update) ==
    /\ inflight[c].op = "idle"
    /\ Step(c, IF BookUpdate(book_update) # "ok"
               THEN Done(Call("update_book", "start",
                              [book_id |-> book_id, update |-> book_update]), 422)
               ELSE Call("update_book", "get_book",
                         [book_id |-> book_id, update |-> book_update]))

\* await get_book_by_id_from_db(...), then the assignments up to the next
\* await: the title alone when author_id is set, else every field
UpdateBookGetBook(c) ==
    LET call == inflight[c]
        found == get_book_by_id_from_db(call.req.book_id)
        book == CHOOSE b \in found : TRUE
        book_update == call.req.update
    IN  /\ call.op = "update_book" /\ call.pc = "get_book"
        /\ Step(c, IF found = {} THEN Done(call, 404)
                   ELSE IF book_update.author_id = None
                   THEN [call EXCEPT !.book = apply_book_update(book, book_update),
                                     !.pc = "save"]
                   ELSE [call EXCEPT
                            !.book = apply_book_update(book,
                                [book_update EXCEPT !.author_id = None,
                                                    !.published_year = None,
                                                    !.genre = None]),
                            !.pc = "get_author"])

\* author = await get_author_by_id_from_db(...) and its check
UpdateBookGetAuthor(c) ==
    LET call == inflight[c]
    IN  /\ call.op = "update_book" /\ call.pc = "get_author"
        /\ Step(c, IF get_author_by_id_from_db(call.req.update.author_id[1]) = {}
                   THEN Done(call, 404)
                   ELSE [call EXCEPT !.pc = "get_author_again"])

\* book.author = await get_author_by_id_from_db(...), unchecked (an author
\* gone by now leaves author_id NULL, here 0), then the last assignments
UpdateBookGetAuthorAgain(c) ==
    LET call == inflight[c]
        book_update == call.req.update
        author == get_author_by_id_from_db(book_update.author_id[1])
    IN  /\ call.op = "update_book" /\ call.pc = "get_author_again"
        /\ Step(c, [call EXCEPT
                       !.book = apply_book_update(call.book,
                           [book_update EXCEPT
                               !.title = None,
                               !.author_id = IF author = {} THEN Some(0)
                                             ELSE book_update.author_id]),
                       !.pc = "save"])

\* await book.save() of the row as fetched and assigned
UpdateBookSave(c) ==
    LET call == inflight[c]
        saved == save_book(books, call.book)
    IN  /\ call.op = "update_book" /\ call.pc = "save"
        /\ books' = saved.table
        /\ inflight' = [inflight EXCEPT ![c] = Done(call, IF saved.ok THEN 200 ELSE 500)]
        /\ UNCHANGED <<authors, author_seq, book_seq, now, resp, before,
                       users, utcoffset, issued, PostgresDB, threads>>

StartImportBooks(c, file) ==
    /\ inflight[c].op = "idle"
    /\ Step(c, IF file.ext \notin {"json", "csv"}
               THEN Done(Call("import_books", "start", file), 400)
               ELSE Call("import_books", "row", file))

\* One turn of the loop of validate_and_save_books_to_db: BookCreate, then
\* the first await of check_book_and_author_exist, the author lookup
ImportBooksRow(c) ==
    LET call == inflight[c]
        book == call.req.rows[call.i]
        validated == BookCreate(book)
        next == [call EXCEPT !.i = call.i + 1]
    IN  /\ call.op = "import_books" /\ call.pc = "row"
        /\ call.i <= Len(call.req.rows)
        /\ Step(c, IF validated = "ValidationError" THEN Done(call, 500)
                   ELSE IF validated = "HTTPException" THEN next
                   ELSE IF get_author_by_id_from_db(model_dump(book).author_id) = {}
                   THEN [next EXCEPT !.not_found_authors =
                            Append(call.not_found_authors, book)]
                   ELSE [call EXCEPT !.pc = "row_title"])

\* Its second await, the title lookup, and the append to a list
ImportBooksRowTitle(c) ==
    LET call == inflight[c]
        book == call.req.rows[call.i]
        next == [call EXCEPT !.i = call.i + 1, !.pc = "row"]
    IN  /\ call.op = "import_books" /\ call.pc = "row_title"
        /\ Step(c, IF get_book_by_title(model_dump(book).title) # {}
                   THEN [next EXCEPT !.exist_books = Append(call.exist_books, book)]
                   ELSE [next EXCEPT !.valid_books =
                            Append(call.valid_books, BookModel(0, model_dump(book)))])

\* After the loop: await bulk_create_books_in_db(...) when a row is valid
ImportBooksSave(c) ==
    LET call == inflight[c]
        out == IF call.valid_books = <<>> THEN Return({})
               ELSE bulk_create_books_in_db(call.valid_books)
    IN  /\ call.op = "import_books" /\ call.pc = "row"
        /\ call.i > Len(call.req.rows)
        /\ out.book_seq <= MaxBookId
        /\ books' = out.books
        /\ book_seq' = out.book_seq
        /\ inflight' = [inflight EXCEPT ![c] = Done(call, out.status)]
        /\ UNCHANGED <<authors, author_seq, now, resp, before,
                       users, utcoffset, issued, PostgresDB, threads>>

\* The client takes the response of its finished request
Finish(c) ==
    /\ inflight[c].pc = "done"
    /\ Step(c, NoCall)

\* Update payloads of one field: a title or an author id
ConcUpdates ==
    {u \in BookUpdates : FieldsSet(u) = 1 /\ (u.title # None \/ u.author_id # None)}

\* A catalog with one author, as CreateAuthor leaves it
InitConc ==
    /\ authors = {[id |-> 1, full_name |-> <<"George", " ", "Orwell">>,
                   birth_date |-> Some(MinBirthYear), biography |-> None]}
    /\ books = {}
    /\ author_seq = 1
    /\ book_seq = 0
    /\ now = 1
    /\ resp = Idle
    /\ before = NoSnapshot
    /\ inflight = [c \in Clients |-> NoCall]
    /\ users = {}
    /\ utcoffset = 0
    /\ issued = {}
    /\ PostgresDB = DbSetup
    /\ threads = [t \in Threads |-> [pc |-> "idle"]]

NextConc ==
    \E c \in Clients :
        \/ \E t \in Titles : StartCreateBook(c, GoodRow(t, 1))
        \/ CreateBookGetAuthor(c)
        \/ CreateBookGetTitle(c)
        \/ CreateBookInsert(c)
        \/ \E id \in 1..MaxBookId, u \in ConcUpdates : StartUpdateBook(c, id, u)
        \/ UpdateBookGetBook(c)
        \/ UpdateBookGetAuthor(c)
        \/ UpdateBookGetAuthorAgain(c)
        \/ UpdateBookSave(c)
        \/ \E f \in FewFiles : StartImportBooks(c, f)
        \/ ImportBooksRow(c)
        \/ ImportBooksRowTitle(c)
        \/ ImportBooksSave(c)
        \/ Finish(c)

SpecConc == InitConc /\ [][NextConc]_vars

----------------------------------------------------------------------------
(* SpecYear: one client that creates, imports and updates books with      *)
(* published years on both sides of each end of the range                 *)

Years == {MinPublishedYear - 1, MinPublishedYear, CurrentYear, CurrentYear + 1}

YearRows ==
    {[GoodRow(t, 1) EXCEPT !.published_year = Some(y)] : t \in Titles, y \in Years}

YearFiles == [ext : {"csv", "json"}, rows : SeqsUpTo(YearRows, 2)]

YearUpdates ==
    {u \in [title : Opt({Emma}), published_year : Opt(Years),
            genre : {None}, author_id : {None}] : FieldsSet(u) >= 1}

NextYear ==
    \/ ReceiveResponse
    \/ CreateAuthor({GoodToken},
                    [name |-> George, surname |-> Orwell,
                     birth_date |-> MinBirthYear, biography |-> None])
    \/ \E b \in YearRows : CreateBook({GoodToken}, b)
    \/ \E f \in YearFiles : ImportBooks({GoodToken}, f)
    \/ \E id \in 1..MaxBookId, u \in YearUpdates : UpdateBook({GoodToken}, id, u)

SpecYear == Init /\ [][NextYear]_vars

----------------------------------------------------------------------------
(* SpecAuth: one client that registers, logs in, lets time pass and       *)
(* presents the tokens it got to a protected route, on a server whose     *)
(* local time is behind, at or ahead of UTC                               *)

Credentials == [username : {"alice", "bob"}, password : {"pw1", "pw2"}]

UtcOffsets == {-1, 0, 1}

InitAuth ==
    /\ authors = {}
    /\ books = {}
    /\ author_seq = 0
    /\ book_seq = 0
    /\ now = 1
    /\ resp = Idle
    /\ before = NoSnapshot
    /\ inflight = [c \in Clients |-> NoCall]
    /\ users = {}
    /\ utcoffset \in UtcOffsets
    /\ issued = {}
    /\ PostgresDB = DbSetup
    /\ threads = [t \in Threads |-> [pc |-> "idle"]]

NextAuth ==
    \/ ReceiveResponse
    \/ Tick
    \/ \E user \in Credentials : Register(user)
    \/ \E form_data \in Credentials :
         /\ Cardinality(issued) < MaxTokens
         /\ Login(form_data)
    \/ \E h \in {{}} \cup {{t} : t \in issued} : GetAllBooks(h)

SpecAuth == InitAuth /\ [][NextAuth]_vars

----------------------------------------------------------------------------
(* SpecAuthor: one client that creates authors, updates their names,      *)
(* birth dates and biographies, and creates a book                        *)

Biography == <<"Born", " ", "in", " ", "Motihari">>

FullAuthorCreates ==
    [name : {George}, surname : {Orwell, OrwellBlair},
     birth_date : {MinBirthYear}, biography : Opt({Biography})]

FullAuthorUpdates ==
    [name : Opt({Eric}), surname : Opt({Blair}),
     birth_date : Opt({CurrentYear}), biography : Opt({Biography})]

NextAuthor ==
    \/ ReceiveResponse
    \/ \E a \in FullAuthorCreates : CreateAuthor({GoodToken}, a)
    \/ CreateBook({GoodToken}, GoodRow(Dune, 1))
    \/ \E id \in AuthorIds, u \in FullAuthorUpdates : UpdateAuthor({GoodToken}, id, u)

SpecAuthor == Init /\ [][NextAuthor]_vars

----------------------------------------------------------------------------
(* SpecBirth: one client that creates and updates authors with birth      *)
(* years on both sides of each end of the range                           *)

BirthYears == {MinBirthYear - 1, MinBirthYear, CurrentYear, CurrentYear + 1}

BirthCreates ==
    [name : {George}, surname : {Orwell, Blair},
     birth_date : BirthYears, biography : {None}]

BirthUpdates ==
    [name : {None}, surname : Opt({Blair}), birth_date : Opt(BirthYears),
     biography : {None}]

NextBirth ==
    \/ ReceiveResponse
    \/ \E a \in BirthCreates : CreateAuthor({GoodToken}, a)
    \/ \E id \in AuthorIds, u \in BirthUpdates : UpdateAuthor({GoodToken}, id, u)

SpecBirth == Init /\ [][NextBirth]_vars

----------------------------------------------------------------------------
(* SpecPartial: two clients update the fields of one stored book, each    *)
(* request setting a single field; the event loop interleaves the awaits  *)
(* of check_exist_book_and_update.                                        *)

\* Update payloads of one field: a title, a genre or a year
PartialUpdates ==
    {u \in RichUpdates : FieldsSet(u) = 1 /\ u.author_id = None}

\* A catalog with one author and one book, as CreateAuthor and CreateBook
\* leave it
InitPartial ==
    /\ authors = {[id |-> 1, full_name |-> <<"George", " ", "Orwell">>,
                   birth_date |-> Some(MinBirthYear), biography |-> None]}
    /\ books = {BookModel(1, model_dump(GoodRow(Dune, 1)))}
    /\ author_seq = 1
    /\ book_seq = 1
    /\ now = 1
    /\ resp = Idle
    /\ before = NoSnapshot
    /\ inflight = [c \in Clients |-> NoCall]
    /\ users = {}
    /\ utcoffset = 0
    /\ issued = {}
    /\ PostgresDB = DbSetup
    /\ threads = [t \in Threads |-> [pc |-> "idle"]]

NextPartial ==
    \E c \in Clients :
        \/ \E id \in 1..MaxBookId, u \in PartialUpdates : StartUpdateBook(c, id, u)
        \/ UpdateBookGetBook(c)
        \/ UpdateBookSave(c)
        \/ Finish(c)

SpecPartial == InitPartial /\ [][NextPartial]_vars

----------------------------------------------------------------------------
(* SpecOrder: one client that creates and imports books whose author may  *)
(* be unknown and whose title may be taken at the same time               *)

NextOrder ==
    \/ ReceiveResponse
    \/ CreateAuthor({GoodToken},
                    [name |-> George, surname |-> Orwell,
                     birth_date |-> MinBirthYear, biography |-> None])
    \/ \E b \in GoodRows : CreateBook({GoodToken}, b)
    \/ \E f \in [ext : {"csv"}, rows : SeqsUpTo(GoodRows, MaxRows)] :
           ImportBooks({GoodToken}, f)

SpecOrder == Init /\ [][NextOrder]_vars

----------------------------------------------------------------------------
(* SpecSingleton: two threads call PostgresDB(dsn) any number of times,   *)
(* starting from the class as its definition leaves it. A step is what a  *)
(* thread does between two points where the interpreter may switch to the *)
(* other thread and the other thread's writes can matter.                 *)

\* PostgresDB(dsn): type.__call__ enters __new__, which reads cls._instance
\* outside the lock; an instance that is set is returned as self (no code
\* ever resets _instance, so the read of the return statement sees the same)
Construct(t, dsn) ==
    LET frame == [pc |-> "lock", dsn |-> dsn, self |-> None,
                  created |-> FALSE, result |-> None]
    IN  /\ threads[t].pc \in {"idle", "done"}
        /\ threads' = [threads EXCEPT ![t] =
               IF PostgresDB.instance = None THEN frame
               ELSE [frame EXCEPT !.pc = "init", !.self = PostgresDB.instance]]
        /\ UNCHANGED <<authors, books, author_seq, book_seq, now, resp, before,
                       inflight, users, utcoffset, issued, PostgresDB>>

\* with cls._lock: the thread waits until the lock is free and takes it
NewLock(t) ==
    /\ threads[t].pc = "lock"
    /\ PostgresDB.lock = "free"
    /\ PostgresDB' = [PostgresDB EXCEPT !.lock = t]
    /\ threads' = [threads EXCEPT ![t].pc = "locked"]
    /\ UNCHANGED <<authors, books, author_seq, book_seq, now, resp, before,
                   inflight, users, utcoffset, issued>>

\* Under the lock: the second test of cls._instance, super().__new__(cls)
\* when it is still unset, the release of the lock, return cls._instance
NewLocked(t) ==
    LET made == PostgresDB.instance = None
        objects == IF made THEN Append(PostgresDB.objects, [dsn |-> None])
                   ELSE PostgresDB.objects
        instance == IF made THEN Some(Len(objects)) ELSE PostgresDB.instance
    IN  /\ threads[t].pc = "locked"
        /\ PostgresDB' = [instance |-> instance, lock |-> "free", objects |-> objects]
        /\ threads' = [threads EXCEPT ![t].pc = "init", ![t].self = instance,
                                      ![t].created = made]
        /\ UNCHANGED <<authors, books, author_seq, book_seq, now, resp, before,
                       inflight, users, utcoffset, issued>>

\* __init__: if not hasattr(self, "_dsn"); with the attribute set the call
\* returns self
InitCheck(t) ==
    LET frame == threads[t]
    IN  /\ frame.pc = "init"
        /\ threads' = [threads EXCEPT ![t] =
               IF PostgresDB.objects[frame.self[1]].dsn = None
               THEN [frame EXCEPT !.pc = "set"]
               ELSE [frame EXCEPT !.pc = "done", !.result = frame.self]]
        /\ UNCHANGED <<authors, books, author_seq, book_seq, now, resp, before,
                       inflight, users, utcoffset, issued, PostgresDB>>

\* __init__: self._dsn = dsn, and the call returns self
InitSet(t) ==
    LET frame == threads[t]
    IN  /\ frame.pc = "set"
        /\ PostgresDB' = [PostgresDB EXCEPT
                             !.objects[frame.self[1]].dsn = Some(frame.dsn)]
        /\ threads' = [threads EXCEPT ![t] =
                          [frame EXCEPT !.pc = "done", !.result = frame.self]]
        /\ UNCHANGED <<authors, books, author_seq, book_seq, now, resp, before,
                       inflight, users, utcoffset, issued>>

\* The class as its definition leaves it: _instance = None, _lock free
InitSingleton ==
    /\ authors = {}
    /\ books = {}
    /\ author_seq = 0
    /\ book_seq = 0
    /\ now = 1
    /\ resp = Idle
    /\ before = NoSnapshot
    /\ inflight = [c \in Clients |-> NoCall]
    /\ users = {}
    /\ utcoffset = 0
    /\ issued = {}
    /\ PostgresDB = [instance |-> None, lock |-> "free", objects |-> <<>>]
    /\ threads = [t \in Threads |-> [pc |-> "idle"]]

NextSingleton ==
    \E t \in Threads :
        \/ \E dsn \in {"postgres://a", "postgres://b", "postgres://c"} :
               Construct(t, dsn)
        \/ NewLock(t)
        \/ NewLocked(t)
        \/ InitCheck(t)
        \/ InitSet(t)

SpecSingleton == InitSingleton /\ [][NextSingleton]_vars

----------------------------------------------------------------------------
(* Claims. A claim about a request reads the response in flight (resp),   *)
(* the tables as the request found them (before) and the tables now.      *)

Rows == resp.req.rows
Imported == resp.op = "import_books" /\ resp.req.ext \in {"csv", "json"}
AuthorKnown(row) == \E a \in before.authors : a.id = row.author_id[1]
TitleTaken(row) == \E b \in before.books : b.title = row.title[1]
NotFoundRow(row) == ~AuthorKnown(row)
ExistRow(row) == AuthorKnown(row) /\ TitleTaken(row)
FreshRow(row) == AuthorKnown(row) /\ ~TitleTaken(row)
NewBooks == books \ before.books
BookOfRow(b, row) ==
    /\ b.title = row.title[1]
    /\ b.published_year = row.published_year[1]
    /\ b.genre = row.genre[1]
    /\ b.author_id = row.author_id[1]
Unchanged == authors = before.authors /\ books = before.books
OutOfRange(year) == year < MinPublishedYear \/ year > CurrentYear

\* C1: in an import whose every row passes BookCreate, a row with an unknown
\* author goes to 'Authors not found', a row with a known author and a
\* title already in the catalog goes to 'Books already exist', neither is
\* inserted, and every other row is inserted and counted as saved.
C1_ImportBuckets ==
    (Imported /\ \A i \in 1..Len(Rows) : BookCreate(Rows[i]) = "ok") =>
        /\ resp.status = 200
        /\ resp.data.not_found_authors = SelectSeq(Rows, NotFoundRow)
        /\ resp.data.exist_books = SelectSeq(Rows, ExistRow)
        /\ resp.data.saved = Len(SelectSeq(Rows, FreshRow))
        /\ before.books \subseteq books
        /\ \A i \in 1..Len(Rows) :
               FreshRow(Rows[i]) => \E b \in NewBooks : BookOfRow(b, Rows[i])
        /\ \A b \in NewBooks :
               \E i \in 1..Len(Rows) : FreshRow(Rows[i]) /\ BookOfRow(b, Rows[i])

\* C2: an import with a row that fails BookCreate (year out of range, genre
\* off the list, required field missing) ends in a 500 and inserts nothing.
C2_InvalidRowAborts ==
    (Imported /\ \E i \in 1..Len(Rows) : BookCreate(Rows[i]) # "ok") =>
        resp.status = 500 /\ books = before.books

TitleOnly(u) ==
    u.title # None /\ u.published_year = None /\ u.genre = None /\ u.author_id = None

TitleOnlyUpdate ==
    /\ resp.op = "update_book"
    /\ Accepted(resp.header)
    /\ TitleOnly(resp.req.update)
    /\ \E b \in before.books : b.id = resp.req.book_id

Retitled ==
    {IF b.id = resp.req.book_id THEN [b EXCEPT !.title = resp.req.update.title[1]]
     ELSE b : b \in before.books}

TitleOfAnother ==
    \E b \in before.books :
        b.id # resp.req.book_id /\ b.title = resp.req.update.title[1]

\* C3 as stated: a title-only update of a stored book stores the new title
\* and changes nothing else.
C3_TitleOnlyUpdate_AsStated ==
    TitleOnlyUpdate => books = Retitled /\ authors = before.authors

\* C3 as amended: a title-only update of a stored book stores the new title
\* and changes nothing else, unless another stored book has that title: then
\* the update fails and no book changes.
C3_TitleOnlyUpdate ==
    TitleOnlyUpdate =>
        /\ authors = before.authors
        /\ IF TitleOfAnother
           THEN resp.status # 200 /\ books = before.books
           ELSE resp.status = 200 /\ books = Retitled

C3_Witness ==
    /\ TitleOnlyUpdate
    /\ resp.status = 200
    /\ Cardinality(before.books) = 2
    /\ books # before.books

\* C4: fetching an author id that is not stored is answered 404.
C4_GetAuthorNotFound ==
    (/\ resp.op = "get_author"
     /\ Accepted(resp.header)
     /\ ~\E a \in before.authors : a.id = resp.req) => resp.status = 404

\* C5: fetching a book id that is not stored is answered 404.
C5_GetBookNotFound ==
    (/\ resp.op = "get_book"
     /\ Accepted(resp.header)
     /\ ~\E b \in before.books : b.id = resp.req) => resp.status = 404

C5_Witness ==
    /\ resp.op = "get_book"
    /\ Accepted(resp.header)
    /\ books # {}
    /\ ~\E b \in before.books : b.id = resp.req
    /\ resp.status = 404

\* C6: a search whose filters match no stored book is answered 404.
C6_SearchNoMatch ==
    (/\ resp.op = "search_books"
     /\ Accepted(resp.header)
     /\ \A b \in before.books :
            b \notin get_books_by_filter_from_db(
                         search_filters(resp.req.title, resp.req.author_id,
                                        resp.req.genre, resp.req.year)))
    => resp.status = 404

CatalogOps ==
    {"create_author", "get_all_authors", "get_author", "update_author",
     "delete_author", "create_book", "import_books", "get_all_books",
     "get_book", "search_books", "update_book", "delete_book"}

\* C7: a catalog request without an accepted bearer token is answered 401
\* and leaves authors and books as they were.
C7_TokenRequired ==
    (resp.op \in CatalogOps /\ ~Accepted(resp.header)) =>
        resp.status = 401 /\ Unchanged

\* C8: in every state reached by any interleaving of the steps of
\* create-book, import and update-book requests, no two stored books have
\* the same title.
C8_TitlesUnique ==
    \A b1 \in books, b2 \in books : b1.title = b2.title => b1 = b2

\* Two clients passed the title check for one title; the first inserted
\* it and the unique index refused the second
C8_Witness ==
    \E c \in Clients :
        /\ inflight[c].op = "create_book"
        /\ inflight[c].pc = "done"
        /\ inflight[c].status = 500
        /\ \E b \in books : b.title = inflight[c].req.title
        /\ Cardinality(books) = 2

\* C9: every stored book references a stored author.
C9_BooksReferenceAuthors ==
    \A b \in books : \E a \in authors : a.id = b.author_id

C9_Witness ==
    /\ resp.op = "delete_author"
    /\ resp.status = 200
    /\ \E b \in before.books : b.author_id = resp.req
    /\ \E b \in before.books : b.author_id # resp.req

YearOutOfRange ==
    \/ /\ resp.op = "create_book"
       /\ resp.req.published_year # None
       /\ OutOfRange(resp.req.published_year[1])
    \/ /\ resp.op = "update_book"
       /\ resp.req.update.published_year # None
       /\ OutOfRange(resp.req.update.published_year[1])

\* C10: a create-book or update-book request with a published year outside
\* [1800, current year] is answered 422 (401 without an accepted token) and
\* changes no author and no book.
C10_YearOutOfRangeRejected ==
    YearOutOfRange =>
        /\ Unchanged
        /\ resp.status = IF Accepted(resp.header) THEN 422 ELSE 401

C10_Witness ==
    /\ resp.op = "update_book"
    /\ Accepted(resp.header)
    /\ resp.req.update.published_year # None
    /\ OutOfRange(resp.req.update.published_year[1])
    /\ resp.req.update.title # None
    /\ \E b \in before.books : b.id = resp.req.book_id
    /\ resp.status = 422

\* C11: after any sequence of create-book, import and update-book requests,
\* every stored book has a published year in [1800, current year].
C11_YearsInRange ==
    \A b \in books : ~OutOfRange(b.published_year)

\* An import with a row out of range and a row in range that was inserted
C11_Witness ==
    /\ Imported
    /\ \E i \in 1..Len(Rows) : OutOfRange(Rows[i].published_year[1])
    /\ \E b \in books \ before.books : b.published_year = CurrentYear
    /\ \E b \in before.books : b.published_year = MinPublishedYear

Registered(username) == \E u \in before.users : u.username = username

\* C12: registering a username that is already registered is answered with
\* the client error 400, creates no user record and leaves every stored
\* user, the first one's credentials included, as it was.
C12_RegisterTwice ==
    (resp.op = "register" /\ Registered(resp.req.username)) =>
        resp.status = 400 /\ users = before.users

\* The second attempt comes with another password than the first
C12_Witness ==
    /\ resp.op = "register"
    /\ \E u \in before.users :
           /\ u.username = resp.req.username
           /\ ~verify_password(resp.req.password, u.hashed_password)
    /\ Cardinality(before.users) = 2
    /\ resp.status = 400

ProtectedOps == CatalogOps \ {"import_books"}

\* C13: a request to a protected route that presents a token issued by
\* login after the token's expiry time is answered 401.
C13_ExpiredTokenRejected ==
    \A t \in issued :
        (resp.op \in ProtectedOps /\ resp.header = {t} /\ now > t.exp) =>
            resp.status = 401

\* A token of login presented one unit of time after its expiry time
C13_Witness ==
    \E t \in issued :
        /\ resp.op \in ProtectedOps
        /\ resp.header = {t}
        /\ now = t.exp + 1
        /\ resp.status = 401

AuthorUpdated == resp.op = "update_author" /\ Accepted(resp.header)

Target(table) == {a \in table : a.id = resp.req.author_id}

\* A full name as create_author_in_db writes it from a name and a surname
\* of one word each
AsCreated(a) == Len(a.full_name) = 3 /\ a.full_name[2] = " "

\* C14: updating an author stored by create-author with a new name and a
\* new surname is answered 200, and the stored full name is then made of
\* the new name and the new surname.
C14_RenameCreatedAuthor ==
    (/\ AuthorUpdated
     /\ resp.req.update.name # None
     /\ resp.req.update.surname # None
     /\ resp.req.update.birth_date = None
     /\ \E a \in Target(before.authors) : AsCreated(a)) =>
        /\ resp.status = 200
        /\ \A a \in Target(authors) :
               \E sep \in {" ", "+"} :
                   a.full_name = resp.req.update.name[1] \o <<sep>>
                                     \o resp.req.update.surname[1]

\* C15: an author update answered 200 leaves the birth date as it was when
\* none is supplied, the biography as it was when none is supplied, and the
\* full name as it was when neither name nor surname is supplied.
C15_AuthorUpdateFrame ==
    (AuthorUpdated /\ resp.status = 200) =>
        \A a \in Target(authors) : \E b \in Target(before.authors) :
            /\ resp.req.update.birth_date = None => a.birth_date = b.birth_date
            /\ resp.req.update.biography = None => a.biography = b.biography
            /\ (resp.req.update.name = None /\ resp.req.update.surname = None)
                   => a.full_name = b.full_name

\* A biography alone is written over the stored one
C15_Witness ==
    /\ AuthorUpdated
    /\ resp.status = 200
    /\ resp.req.update.biography # None
    /\ resp.req.update.birth_date = None
    /\ resp.req.update.name = None /\ resp.req.update.surname = None
    /\ Target(authors) # Target(before.authors)
    /\ Cardinality(authors) = 2

\* An accepted update of a stored book whose payload passes BookUpdate
BookUpdated ==
    /\ resp.op = "update_book"
    /\ Accepted(resp.header)
    /\ BookUpdate(resp.req.update) = "ok"
    /\ \E b \in before.books : b.id = resp.req.book_id

NewAuthorKnown == \E a \in before.authors : a.id = resp.req.update.author_id[1]

TitleClash ==
    /\ resp.req.update.title # None
    /\ \E b \in before.books :
           b.id # resp.req.book_id /\ b.title = resp.req.update.title[1]

ReferencesNewAuthor ==
    \E b \in books :
        b.id = resp.req.book_id /\ b.author_id = resp.req.update.author_id[1]

\* C16 as stated: a book update with an author_id that is not stored is
\* answered 404 'Author not found' and changes no book, whatever else it
\* sets; with an author_id that is stored, the book references that author
\* afterwards.
C16_UpdateAuthorChecked_AsStated ==
    (BookUpdated /\ resp.req.update.author_id # None) =>
        IF ~NewAuthorKnown
        THEN /\ resp.status = 404
             /\ resp.detail = "Author not found"
             /\ books = before.books
        ELSE ReferencesNewAuthor

\* C16 as amended: the same, except that with a stored author_id and a new
\* title that another stored book has, the update fails and changes no book.
C16_UpdateAuthorChecked ==
    (BookUpdated /\ resp.req.update.author_id # None) =>
        IF ~NewAuthorKnown
        THEN /\ resp.status = 404
             /\ resp.detail = "Author not found"
             /\ books = before.books
        ELSE IF TitleClash
        THEN resp.status # 200 /\ books = before.books
        ELSE resp.status = 200 /\ ReferencesNewAuthor

\* An unknown author together with a new title: 404, the title stays
C16_Witness ==
    /\ BookUpdated
    /\ resp.req.update.author_id # None
    /\ ~NewAuthorKnown
    /\ resp.req.update.title # None
    /\ ~TitleClash
    /\ \A b \in before.books : b.title # resp.req.update.title[1]
    /\ before.authors # {}
    /\ resp.status = 404

\* C17: a book update that sets the title to that of another stored book
\* is answered with a client error (4xx), and no book changes.
C17_DuplicateTitleUpdate ==
    (/\ BookUpdated
     /\ TitleClash
     /\ resp.req.update.author_id # None => NewAuthorKnown) =>
        /\ resp.status \in 400..499
        /\ books = before.books

FullNameStored ==
    \E a \in before.authors :
        a.full_name = resp.req.name \o <<" ">> \o resp.req.surname

\* C18: creating a book whose title a stored book has, for a stored author,
\* is answered 400 'Book already exists' and creates nothing; creating an
\* author whose name and surname form the full name of a stored author is
\* answered 400 'Author already exists' and creates nothing.
C18_DuplicateCreateRejected ==
    /\ (/\ resp.op = "create_book"
        /\ Accepted(resp.header)
        /\ BookCreate(resp.req) = "ok"
        /\ AuthorKnown(resp.req)
        /\ TitleTaken(resp.req)) =>
           /\ resp.status = 400
           /\ resp.detail = "Book already exists"
           /\ Unchanged
    /\ (/\ resp.op = "create_author"
        /\ Accepted(resp.header)
        /\ validate_birth_date(resp.req.birth_date)
        /\ FullNameStored) =>
           /\ resp.status = 400
           /\ resp.detail = "Author already exists"
           /\ Unchanged

Deleted(op) == resp.op = op /\ Accepted(resp.header)

\* C19 as stated: a delete of a stored book or author removes that record
\* and nothing else; a delete of an id that is not stored (deleted before,
\* or never stored) is answered 404 and changes nothing.
C19_DeleteExactly_AsStated ==
    /\ Deleted("delete_book") =>
           IF \E b \in before.books : b.id = resp.req
           THEN /\ resp.status = 200
                /\ books = {b \in before.books : b.id # resp.req}
                /\ authors = before.authors
           ELSE resp.status = 404 /\ Unchanged
    /\ Deleted("delete_author") =>
           IF \E a \in before.authors : a.id = resp.req
           THEN /\ resp.status = 200
                /\ authors = {a \in before.authors : a.id # resp.req}
                /\ books = before.books
           ELSE resp.status = 404 /\ Unchanged

\* C19 as amended: the same, except that a delete of a stored author also
\* removes the books that reference the author, and no other book.
C19_DeleteExactly ==
    /\ Deleted("delete_book") =>
           IF \E b \in before.books : b.id = resp.req
           THEN /\ resp.status = 200
                /\ books = {b \in before.books : b.id # resp.req}
                /\ authors = before.authors
           ELSE resp.status = 404 /\ Unchanged
    /\ Deleted("delete_author") =>
           IF \E a \in before.authors : a.id = resp.req
           THEN /\ resp.status = 200
                /\ authors = {a \in before.authors : a.id # resp.req}
                /\ books = {b \in before.books : b.author_id # resp.req}
           ELSE resp.status = 404 /\ Unchanged

\* A second delete of a book id that was handed out, with a book left
C19_Witness ==
    /\ Deleted("delete_book")
    /\ resp.req <= book_seq
    /\ ~\E b \in before.books : b.id = resp.req
    /\ books # {}
    /\ resp.status = 404

\* C20: an import upload whose file name ends in neither .json nor .csv is
\* answered 400 and leaves the stored books (and authors) unchanged.
C20_UnsupportedFileRejected ==
    (resp.op = "import_books" /\ resp.req.ext \notin {"json", "csv"}) =>
        resp.status = 400 /\ Unchanged

\* The file holds a row that an import of a .csv would have inserted
C20_Witness ==
    /\ resp.op = "import_books"
    /\ resp.req.ext \notin {"json", "csv"}
    /\ \E i \in 1..Len(Rows) : FreshRow(Rows[i])
    /\ before.books # {}
    /\ resp.status = 400

\* The stored hash of the login's username is the hash of its password
CredentialsMatch ==
    \E u \in before.users :
        /\ u.username = resp.req.username
        /\ u.hashed_password.digest = <<u.hashed_password.salt, resp.req.password>>

\* C21: a login with a username that is not registered, or with a password
\* that does not match the stored hash, is answered 401 and carries no
\* token; a login with a registered username and its password is answered
\* with a token whose subject is that username.
C21_Login ==
    resp.op = "login" =>
        IF CredentialsMatch
        THEN resp.status = 200 /\ resp.data.sub = resp.req.username
        ELSE resp.status = 401 /\ resp.data = {}

\* A registered username with another password than the registered one,
\* while another user is registered with that very password
C21_Witness ==
    /\ resp.op = "login"
    /\ Registered(resp.req.username)
    /\ ~CredentialsMatch
    /\ \E u \in before.users :
           u.hashed_password.digest = <<u.hashed_password.salt, resp.req.password>>
    /\ resp.status = 401

BirthOutOfRange(year) == year < MinBirthYear \/ year > CurrentYear

BirthYearRejected ==
    \/ /\ resp.op = "create_author"
       /\ Accepted(resp.header)
       /\ BirthOutOfRange(resp.req.birth_date)
    \/ /\ AuthorUpdated
       /\ resp.req.update.birth_date # None
       /\ BirthOutOfRange(resp.req.update.birth_date[1])

\* C22: every stored author that has a birth date has a birth year in
\* [1700, current year], and a create-author or update-author request with
\* a birth year outside that range is answered 422 and changes nothing.
C22_BirthYearsInRange ==
    /\ \A a \in authors :
           a.birth_date # None => ~BirthOutOfRange(a.birth_date[1])
    /\ BirthYearRejected => resp.status = 422 /\ Unchanged

\* An update of a stored author to the year after the current one, which
\* also sets a surname
C22_Witness ==
    /\ AuthorUpdated
    /\ resp.req.update.birth_date = Some(CurrentYear + 1)
    /\ resp.req.update.surname # None
    /\ \E a \in Target(before.authors) : a.birth_date = Some(CurrentYear)
    /\ resp.status = 422


\* C23: whenever an import request ends in an error response, no row of the
\* file has been inserted and the stored books are those of before the
\* request.
C23_ImportErrorStoresNothing ==
    (resp.op = "import_books" /\ resp.status >= 400) =>
        /\ books = before.books
        /\ \A i \in 1..Len(Rows) : \A b \in NewBooks : ~BookOfRow(b, Rows[i])

\* The batch itself fails: every row passes BookCreate and one of them is a
\* new book whose title no other row of the file carries
C23_Witness ==
    /\ Imported
    /\ resp.status = 500
    /\ \A i \in 1..Len(Rows) : BookCreate(Rows[i]) = "ok"
    /\ \E i \in 1..Len(Rows) :
           /\ FreshRow(Rows[i])
           /\ \A j \in 1..Len(Rows) : Rows[j].title = Rows[i].title => j = i


\* Rows i < j of the file carry the same title, a title no stored book has,
\* and both reference stored authors
RepeatedFreshTitle(i, j) ==
    /\ i < j
    /\ Rows[i].title = Rows[j].title
    /\ FreshRow(Rows[i])
    /\ FreshRow(Rows[j])

\* C24: an import file whose rows all pass field validation and in which two
\* rows with stored authors carry the same title, a title not yet in the
\* catalog, returns successfully, stores exactly one book with that title and
\* lists the repeated row under 'Books already exist'.
C24_RepeatedTitleInFile ==
    \A i, j \in 1..MaxRows :
        (/\ Imported
         /\ \A k \in 1..Len(Rows) : BookCreate(Rows[k]) = "ok"
         /\ i \in 1..Len(Rows) /\ j \in 1..Len(Rows)
         /\ RepeatedFreshTitle(i, j)) =>
            /\ resp.status = 200
            /\ Cardinality({b \in books : b.title = Rows[i].title[1]}) = 1
            /\ \E k \in 1..Len(resp.data.exist_books) :
                   resp.data.exist_books[k] = Rows[j]


\* C25: whenever an import returns successfully, every row of the file is
\* accounted for exactly once: 'Count of saved books' plus the lengths of
\* 'Books already exist' and 'Authors not found' equals the number of rows,
\* and the number of stored books has grown by 'Count of saved books'.
C25_RowsAccounted ==
    (Imported /\ resp.status = 200) =>
        /\ resp.data.saved + Len(resp.data.exist_books)
               + Len(resp.data.not_found_authors) = Len(Rows)
        /\ Cardinality(books) = Cardinality(before.books) + resp.data.saved


\* Both clients have a create-book request for one title in flight, answered
\* but not yet taken: the two were processed concurrently
CreatesOfOneTitle(c, d) ==
    /\ c # d
    /\ inflight[c].op = "create_book" /\ inflight[c].pc = "done"
    /\ inflight[d].op = "create_book" /\ inflight[d].pc = "done"
    /\ inflight[c].req.title = inflight[d].req.title

\* C26: of two create-book requests with the same new title and stored
\* authors that are processed concurrently, exactly one creates the book and
\* the other is answered 400 'Book already exists', never 500.
C26_ConcurrentCreates ==
    \A c, d \in Clients :
        (CreatesOfOneTitle(c, d) /\ inflight[c].status = 200) =>
            /\ inflight[d].status = 400
            /\ Cardinality({b \in books : b.title = inflight[c].req.title}) = 1


GenreOnly(u) ==
    u.genre # None /\ u.title = None /\ u.published_year = None /\ u.author_id = None

\* Client c's title-only update and client d's genre-only update of one book
\* are both in flight, answered 200 and not yet taken
DisjointUpdatesDone(c, d) ==
    /\ c # d
    /\ inflight[c].op = "update_book" /\ inflight[c].pc = "done"
    /\ inflight[d].op = "update_book" /\ inflight[d].pc = "done"
    /\ inflight[c].status = 200 /\ inflight[d].status = 200
    /\ inflight[c].req.book_id = inflight[d].req.book_id
    /\ TitleOnly(inflight[c].req.update)
    /\ GenreOnly(inflight[d].req.update)

\* C27: when a title-only and a genre-only update of the same book are
\* processed concurrently and both succeed, the stored book carries both the
\* new title and the new genre.
C27_DisjointUpdatesBothKept ==
    \A c, d \in Clients :
        DisjointUpdatesDone(c, d) =>
            \E b \in books :
                /\ b.id = inflight[c].req.book_id
                /\ b.title = inflight[c].req.update.title[1]
                /\ b.genre = inflight[d].req.update.genre[1]


\* C28: in every reachable state, after any sequence of create-author and
\* update-author requests, no two stored authors have the same full name.
C28_FullNamesUnique ==
    \A a1 \in authors, a2 \in authors : a1.full_name = a2.full_name => a1 = a2


\* The row's author is not stored and its title is the title of a stored book
UnknownAuthorTakenTitle(row) == ~AuthorKnown(row) /\ TitleTaken(row)

InBucket(row, bucket) == \E k \in 1..Len(bucket) : bucket[k] = row

\* C29: the author check runs before the title check. Creating a book whose
\* author is not stored and whose title a stored book has is answered 404
\* 'Author not found'; an import lists such a row under 'Authors not found'
\* and not under 'Books already exist', and no row is in both lists.
C29_AuthorCheckedFirst ==
    /\ (/\ resp.op = "create_book"
        /\ Accepted(resp.header)
        /\ BookCreate(resp.req) = "ok"
        /\ UnknownAuthorTakenTitle(resp.req)) =>
           /\ resp.status = 404
           /\ resp.detail = "Author not found"
           /\ Unchanged
    /\ (Imported /\ resp.status = 200) =>
           /\ \A i \in 1..Len(Rows) :
                  (BookCreate(Rows[i]) = "ok" /\ UnknownAuthorTakenTitle(Rows[i])) =>
                      /\ InBucket(Rows[i], resp.data.not_found_authors)
                      /\ ~InBucket(Rows[i], resp.data.exist_books)
           /\ \A i \in 1..Len(Rows) :
                  ~(/\ InBucket(Rows[i], resp.data.not_found_authors)
                    /\ InBucket(Rows[i], resp.data.exist_books))

\* An import with a row of either kind: one whose author is unknown and
\* whose title is taken, one whose author is stored and whose title is taken
C29_Witness ==
    /\ Imported
    /\ resp.status = 200
    /\ \E i \in 1..Len(Rows) : UnknownAuthorTakenTitle(Rows[i])
    /\ \E i \in 1..Len(Rows) : ExistRow(Rows[i])
    /\ resp.data.exist_books # <<>>
    /\ resp.data.not_found_authors # <<>>


\* The calls that have returned all returned the same object
OneInstance ==
    \A t \in Threads, u \in Threads :
        (threads[t].pc = "done" /\ threads[u].pc = "done") =>
            threads[t].result = threads[u].result

\* The object has the DSN of the call that made it, once that call returned
DsnOfFirstConstruction ==
    \A t \in Threads :
        (threads[t].pc = "done" /\ threads[t].created) =>
            PostgresDB.objects[threads[t].result[1]].dsn = Some(threads[t].dsn)

\* A DSN that an object has is the DSN it has from then on
DsnKept ==
    \A i \in 1..Len(PostgresDB.objects) :
        PostgresDB.objects[i].dsn # None =>
            PostgresDB'.objects[i].dsn = PostgresDB.objects[i].dsn

\* C30: constructing PostgresDB any number of times, also concurrently from
\* several threads, yields one and the same instance, and that instance
\* keeps the DSN given at the first construction.
C30_Singleton ==
    /\ [](OneInstance /\ DsnOfFirstConstruction)
    /\ [][DsnKept]_vars

====
